---- MODULE Spec2Model ----
(***************************************************************************)
(* smallsh: the read-eval loop of src/smallsh.c, its children, and the     *)
(* two signal handlers that preempt it.                                    *)
(*                                                                         *)
(* The shell is one process with one thread.  A signal handler runs on top *)
(* of whatever the shell was doing: hstack is the stack of handler frames, *)
(* the main loop moves only while it is empty.  handle_sigchld runs with   *)
(* every signal blocked (sigfillset, line 394); handle_sigtstp runs with   *)
(* every signal but SIGCHLD blocked (lines 107-108), so handle_sigchld can *)
(* run on top of it.  Children are separate processes: they terminate at   *)
(* any moment.                                                             *)
(*                                                                         *)
(* Spec and FairSpec are the whole shell.  ParseSpec and ExpandSpec are    *)
(* get_command on one line, CommandSpec is one line from getline to the    *)
(* next prompt, ChildSpec is the child branch of fork_and_execute.         *)
(***************************************************************************)
EXTENDS Integers, Sequences, FiniteSets, TLC

\* ------------------------------------------------------------------ bounds
MaxChildren == 3      \* number of fork() calls in a run
MaxTstp == 2          \* number of SIGTSTP the user sends in a run

\* --------------------------------------------------------------- constants
SUCCESS == 0
FAILURE == 1

Pids == 1..MaxChildren

\* the exit methods a child can end with: WIFEXITED with a code, or
\* WIFSIGNALED with a signal number
ExitCodes == {7}
TermSignals == {9}
ExitMethods == [kind : {"exited"}, val : ExitCodes] \cup
               [kind : {"signaled"}, val : TermSignals]

WIFEXITED(m) == m.kind = "exited"
WIFSIGNALED(m) == m.kind = "signaled"
WEXITSTATUS(m) == m.val
WTERMSIG(m) == m.val

\* ------------------------------------------------------------------ tokens
\* a line is the sequence of characters getline returns, a token is a run of
\* characters between the delimiters of strtok_r (" \n", lines 151, 165, 170,
\* 183)
T_status == <<"s", "t", "a", "t", "u", "s">>
T_cd == <<"c", "d">>
T_exit == <<"e", "x", "i", "t">>
T_prog == <<"p">>
T_amp == <<"&">>
T_lt == <<"<">>
T_gt == <<">">>
T_hash == <<"#">>
T_file == <<"f">>

\* what may follow a string whose terminator was overwritten: nothing when
\* the byte written is 0, else the low byte of the next chunk's size
Junk == {<<>>, <<"!">>}

\* the lines the user types in this model
Lines ==
  { <<>>,
    T_hash \o <<" ">> \o T_prog,
    T_status,
    T_cd,
    T_exit,
    T_prog,
    T_prog \o <<" ">> \o T_amp }

VARIABLES
  pc,               \* where the main loop is
  hstack,           \* handler frames on top of the main loop, innermost last
  user_command,     \* struct command filled by get_command
  exit_program,     \* program_status.exit_program
  exit_status,      \* program_status.exit_status
  kill_signal,      \* program_status.kill_signal
  foreground,       \* program_status.foreground
  background,       \* program_status.background: address of the head node, 0 = NULL
  foreground_only,  \* program_status.foreground_only
  node,             \* the heap: the struct process nodes, by address
  spwan_pid,        \* fork_and_execute's local
  cur,              \* push_background_process's current_background_process
  child,            \* the process host: every child forked so far
  sa_sigchld,       \* TRUE once sigaction(SIGCHLD, handle_sigchld) was called
  pend_chld,        \* a SIGCHLD is pending
  pend_tstp,        \* a SIGTSTP is pending
  tstp,             \* history of SIGTSTP: deliveries and notices written
  bg_done,          \* history: "background pid P is done" lines written, per pid
  status_line,      \* history: what the last `status` built-in wrote
  fg_last,          \* history: how the last foreground child to be reaped ended
  notice,           \* history: the last foreground-only notice written
  killed,           \* history: children sent a termination signal by the shell
  input_buffer,     \* get_command's input_buffer: the line under parse
  cproc,            \* one child process, from fork() to its end
  cwd,              \* the shell's working directory
  shell_stderr      \* history: what the shell itself wrote to stderr

vars == <<pc, hstack, user_command, exit_program, exit_status, kill_signal,
          foreground, background, foreground_only, node, spwan_pid, cur,
          child, sa_sigchld, pend_chld, pend_tstp, tstp, bg_done, status_line,
          fg_last, notice, killed, input_buffer, cproc, cwd, shell_stderr>>

\* program_status as handle_sigchld and the main loop share it
status_vars == <<exit_status, kill_signal, foreground>>
list_vars == <<background, node>>
cmd_vars == <<user_command, spwan_pid, cur>>
sig_vars == <<sa_sigchld, pend_chld, pend_tstp>>
hist_vars == <<tstp, bg_done, status_line, fg_last, notice, killed>>
\* what the parser and the child process are studied with, one at a time
study_vars == <<input_buffer, cproc>>
\* what only change_directory and the failure of fork() touch
aux_vars == <<study_vars, cwd, shell_stderr>>

\* ---------------------------------------------------------- pure functions
\* write_integer (lines 575-603): the decimal digits of num, most significant
\* first; the digit loops run only while the dividend is positive
Digit(d) == <<"0", "1", "2", "3", "4", "5", "6", "7", "8", "9">>[d + 1]

RECURSIVE write_digits(_)
write_digits(dividend) ==
  IF dividend <= 0 THEN <<>>
  ELSE Append(write_digits(dividend \div 10), Digit(dividend % 10))

write_integer(num) == IF num = 0 THEN <<"0">> ELSE write_digits(num)

\* getpid() of the shell
ShellPid == 42

\* strstr(s, "$$") - s (lines 240, 263): index of the first "$$", 0 when none
Strstr(s) ==
  LET hits == {i \in 1..(Len(s) - 1) : s[i] = "$" /\ s[i + 1] = "$"}
  IN IF hits = {} THEN 0 ELSE CHOOSE i \in hits : \A j \in hits : i <= j

\* the bytes a block of calloc(n, 1) can hold (line 238): the allocator rounds
\* the request up to its chunk sizes, 24, 40, 56, ... bytes on a 64-bit glibc
malloc_usable_size(n) ==
  IF n + 8 <= 32 THEN 24 ELSE 16 * ((n + 8 + 15) \div 16) - 8

\* the loop of lines 242-264: while the current string holds "$$", rebuild it
\* as left part, pid (sprintf %d), right part in a block of exactly its size,
\* and search the result again from its start
RECURSIVE expand_while(_)
expand_while(current_string) ==
  LET variable_start == Strstr(current_string)
  IN IF variable_start = 0 THEN current_string
     ELSE expand_while(
            SubSeq(current_string, 1, variable_start - 1)
            \o write_integer(ShellPid)
            \o SubSeq(current_string, variable_start + 2, Len(current_string)))

\* expand_variable (lines 233-267), as the string reads once the next block
\* has been allocated.  Line 238 allocates strlen bytes and line 239 copies
\* strlen + 1: with no "$$" this copy is what is returned, and when the
\* string fills its block the terminator lies in the header of the next one,
\* where the next allocation writes: the string then runs on into junk.
expand_variable(unexpanded_string, junk) ==
  IF Strstr(unexpanded_string) # 0 THEN expand_while(unexpanded_string)
  ELSE IF Len(unexpanded_string) >= malloc_usable_size(Len(unexpanded_string))
       THEN unexpanded_string \o junk
       ELSE unexpanded_string

\* the file system as chdir sees it: the directories there are; T_file is a
\* name that is no directory.  HomeDir is what getenv("HOME") returns (line
\* 307), StartDir a directory the shell may be started in.
HomeDir == <<"h">>
StartDir == <<"w">>
T_dir == <<"d">>
Dirs == {HomeDir, StartDir, T_dir}

\* chdir (line 310): 0 and the new working directory, or -1 and the old one
chdir(path, dir) ==
  IF path \in Dirs THEN [rc |-> 0, cwd |-> path] ELSE [rc |-> 0 - 1, cwd |-> dir]

\* reset_command (lines 197-223)
reset_command ==
  [arguments |-> <<>>, input_file |-> <<>>, output_file |-> <<>>,
   background |-> FALSE]

\* strtok_r (lines 151, 165, 170, 183): the tokens of the buffer from
\* character i on; token_end is the last character of the token starting at i
Delimiters == {" ", "\n"}

RECURSIVE token_end(_, _)
token_end(buffer, i) ==
  IF i + 1 > Len(buffer) \/ buffer[i + 1] \in Delimiters THEN i
  ELSE token_end(buffer, i + 1)

RECURSIVE strtok_r(_, _)
strtok_r(buffer, i) ==
  IF i > Len(buffer) THEN <<>>
  ELSE IF buffer[i] \in Delimiters THEN strtok_r(buffer, i + 1)
  ELSE LET j == token_end(buffer, i)
       IN <<SubSeq(buffer, i, j)>> \o strtok_r(buffer, j + 1)

\* whether the token loop, from token i on, calls expand_variable again (and
\* so allocates again)
RECURSIVE allocs_from(_, _)
allocs_from(toks, i) ==
  IF i > Len(toks) THEN FALSE
  ELSE IF toks[i] \in {T_lt, T_gt} THEN i + 1 <= Len(toks)
  ELSE IF toks[i] = T_amp THEN allocs_from(toks, i + 1)
  ELSE TRUE

\* line 175: what a "&" token makes of user_command->background
amp_background_always(fg_only) == TRUE
amp_background(fg_only) == ~fg_only

\* the token loop of get_command (lines 161-184), from token i on.
\* A "<" or ">" with no following token hands NULL to expand_variable, whose
\* strlen(NULL) faults: fault is then TRUE.
RECURSIVE parse_tokens(_, _, _, _, _)
parse_tokens(toks, i, cmd, fg_only, junk) ==
  IF i > Len(toks) THEN [cmd |-> cmd, fault |-> FALSE]
  ELSE IF toks[i] = T_lt THEN
         IF i + 1 > Len(toks) THEN [cmd |-> cmd, fault |-> TRUE]
         ELSE parse_tokens(toks, i + 2,
                [cmd EXCEPT !.input_file =
                   expand_variable(toks[i + 1],
                      IF allocs_from(toks, i + 2) THEN junk ELSE <<>>)],
                fg_only, junk)
  ELSE IF toks[i] = T_gt THEN
         IF i + 1 > Len(toks) THEN [cmd |-> cmd, fault |-> TRUE]
         ELSE parse_tokens(toks, i + 2,
                [cmd EXCEPT !.output_file =
                   expand_variable(toks[i + 1],
                      IF allocs_from(toks, i + 2) THEN junk ELSE <<>>)],
                fg_only, junk)
  ELSE IF toks[i] = T_amp THEN
         parse_tokens(toks, i + 1,
           [cmd EXCEPT !.background = amp_background(fg_only)], fg_only, junk)
  ELSE parse_tokens(toks, i + 1,
         [cmd EXCEPT !.arguments =
            Append(@, expand_variable(toks[i],
                        IF allocs_from(toks, i + 1) THEN junk ELSE <<>>))],
         fg_only, junk)

\* get_command (lines 133-187) on the line getline has returned.  is_comment
\* looks at the first character of the buffer (line 154), is_blank_line at
\* the first token (line 155).
get_command(buffer, fg_only, junk) ==
  LET toks == strtok_r(buffer, 1)
      is_comment == buffer # <<>> /\ buffer[1] = "#"
      is_blank_line == toks = <<>>
  IN IF is_comment \/ is_blank_line
     THEN [rc |-> FAILURE, cmd |-> reset_command, fault |-> FALSE]
     ELSE LET r == parse_tokens(toks, 1, reset_command, fg_only, junk)
          IN [rc |-> SUCCESS, cmd |-> r.cmd, fault |-> r.fault]

\* execute_command's dispatch (lines 276-292): where the main loop goes next
Dispatch(arguments) ==
  IF arguments = <<>> THEN "crashed"            \* strcmp(NULL, "status")
  ELSE LET first_argument == arguments[1]
       IN IF first_argument = T_status THEN "report_status"
          ELSE IF Len(first_argument) >= 2 /\ SubSeq(first_argument, 1, 2) = T_cd
               THEN "change_directory"
          ELSE IF first_argument = T_exit THEN "exit"
          ELSE "fork_and_execute"

\* report_status (lines 319-331): the line it writes
report_signal(sig) == <<"terminated by signal ", write_integer(sig)>>
report_exit(status) == <<"exit value ", write_integer(status)>>

\* pop_background_process (lines 539-567): the search of lines 547-556,
\* giving <<previous, current>>, current = 0 when the pid is not in the list
RECURSIVE pop_search(_, _, _, _)
pop_search(nodes, previous, current, process_id) ==
  IF nodes[current].process_id = process_id THEN <<previous, current>>
  ELSE IF nodes[current].next = 0 THEN <<0, 0>>
  ELSE pop_search(nodes, current, nodes[current].next, process_id)

\* pop_background_process: found, and the list after the removal
pop_background_process(head, nodes, process_id) ==
  IF head = 0 THEN [found |-> FALSE, head |-> head, nodes |-> nodes]
  ELSE LET pc_ == pop_search(nodes, 0, head, process_id)
           previous == pc_[1]
           current == pc_[2]
       IN IF current = 0 THEN [found |-> FALSE, head |-> head, nodes |-> nodes]
          ELSE IF nodes[head].process_id = process_id
               THEN [found |-> TRUE, head |-> nodes[head].next,
                     nodes |-> [nodes EXCEPT ![current].st = "freed"]]
               ELSE [found |-> TRUE, head |-> head,
                     nodes |-> [nodes EXCEPT ![previous].next = nodes[current].next,
                                             ![current].st = "freed"]]

\* the pids reachable from the head of the background list
RECURSIVE list_from(_, _, _)
list_from(nodes, a, fuel) ==
  IF a = 0 \/ fuel = 0 THEN {}
  ELSE {nodes[a].process_id} \cup list_from(nodes, nodes[a].next, fuel - 1)

BackgroundPids == list_from(node, background, MaxChildren)

\* the children program_status still tracks: the list and the foreground slot
Tracked == BackgroundPids \cup ({foreground} \ {0})

\* ------------------------------------------------------------------- state
NChildren == Cardinality({p \in Pids : child[p].st # "none"})
Zombies == {p \in Pids : child[p].st = "zombie"}
Alive == pc \notin {"done", "crashed", "fork_failed"}
MainRuns == Alive /\ hstack = <<>>
Top == hstack[Len(hstack)]
InHandler(f) == hstack # <<>> /\ Top = f

\* cproc when no child process is looked into
NoChild == [pc |-> "none"]

\* the shell after lines 99-112 of main, the first get_command waiting in
\* getline.  InitWith gives the same shell at another point, in mode
\* fg_only, holding command cmd, with line buffer read, child process cp, and
\* working directory dir.
InitWith(at, fg_only, cmd, buffer, cp, dir) ==
  /\ pc = at
  /\ hstack = <<>>
  /\ user_command = cmd
  /\ exit_program = FALSE
  /\ exit_status = SUCCESS
  /\ kill_signal = 0
  /\ foreground = 0
  /\ background = 0
  /\ foreground_only = fg_only
  /\ node = [a \in Pids |-> [process_id |-> 0, next |-> 0, st |-> "none"]]
  /\ spwan_pid = 0
  /\ cur = 0
  /\ child = [p \in Pids |-> [st |-> "none", bg |-> FALSE, lost |-> FALSE]]
  /\ sa_sigchld = FALSE
  /\ pend_chld = FALSE
  /\ pend_tstp = FALSE
  /\ tstp = [delivered |-> 0, notices |-> 0]
  /\ bg_done = [p \in Pids |-> 0]
  /\ status_line = <<>>
  /\ fg_last = [kind |-> "exited", val |-> 0]
  /\ notice = ""
  /\ killed = {}
  /\ input_buffer = buffer
  /\ cproc = cp
  /\ cwd = dir
  /\ shell_stderr = <<>>

Init == InitWith("main", FALSE, reset_command, <<>>, NoChild, HomeDir)

\* ----------------------------------------------------------- the main loop
\* pc = "main": the loop test of line 115 has passed and get_command, having
\* reset the command (line 135), waits in getline (line 143).
\* MainLoop is one turn of lines 115-119 from there: a line arrives,
\* get_command parses it (lines 147-187) and, on SUCCESS, execute_command
\* (lines 276-292) picks the built-in or fork_and_execute; `exit` sets the
\* flag (line 287), which ends the loop.  Only the shell's own command is
\* touched, so no handler can tell these steps apart.  A line that forks is
\* read only while the model has a child left to fork.
MainLoop ==
  /\ MainRuns /\ pc = "main" /\ ~exit_program
  /\ \E line \in Lines, junk \in Junk :
       LET r == get_command(line, foreground_only, junk)
           to == IF r.fault THEN "crashed"
                 ELSE IF r.rc = SUCCESS THEN Dispatch(r.cmd.arguments)
                 ELSE "main"
       IN /\ to = "fork_and_execute" => NChildren < MaxChildren
          /\ user_command' = IF r.rc = SUCCESS THEN r.cmd ELSE reset_command
          /\ pc' = IF to = "exit" THEN "exit_and_cleanup" ELSE to
          /\ exit_program' = (to = "exit")
  /\ status_line' = <<>>
  /\ UNCHANGED <<aux_vars, hstack, status_vars, list_vars, foreground_only,
                 spwan_pid, cur, child, sig_vars,
                 tstp, bg_done, fg_last, notice, killed>>

\* the command is done: back to line 115 and, the flag being unset, into
\* get_command, which resets the command and waits for the next line
Prompt ==
  /\ pc' = "main"
  /\ user_command' = reset_command
  /\ spwan_pid' = 0
  /\ cur' = 0

\* report_status called by the main loop: the test of line 321 ...
ReportStatusTest ==
  /\ MainRuns /\ pc = "report_status"
  /\ pc' = IF kill_signal # 0 THEN "status_signal" ELSE "status_exit"
  /\ UNCHANGED <<aux_vars, hstack, cmd_vars, exit_program, status_vars, list_vars,
                 foreground_only, child, sig_vars, hist_vars>>

\* ... and the writes of lines 322-323 or 326-327, which read the field again
ReportStatusWrite ==
  /\ MainRuns /\ pc \in {"status_signal", "status_exit"}
  /\ status_line' = IF pc = "status_signal" THEN report_signal(kill_signal)
                    ELSE report_exit(exit_status)
  /\ Prompt
  /\ UNCHANGED <<aux_vars, hstack, exit_program, status_vars, list_vars, foreground_only,
                 child, sig_vars, tstp, bg_done, fg_last, notice, killed>>

\* change_directory (lines 302-311): the path is argument 1, or the home
\* directory when there is none; the value chdir returns is dropped and
\* nothing is written, whether the call failed or not
change_directory(cmd, dir) ==
  LET path == IF Len(cmd.arguments) >= 2 THEN cmd.arguments[2] ELSE HomeDir
  IN [cwd |-> chdir(path, dir).cwd, written |-> <<>>]

ChangeDirectory ==
  /\ MainRuns /\ pc = "change_directory"
  /\ LET r == change_directory(user_command, cwd)
     IN /\ cwd' = r.cwd
        /\ shell_stderr' = shell_stderr \o r.written
  /\ Prompt
  /\ UNCHANGED <<study_vars, hstack, exit_program, status_vars, list_vars,
                 foreground_only, child, sig_vars, hist_vars>>

\* the children exit_and_cleanup sends a termination signal to (lines
\* 340-346): killing the children is left "TO DO", it sends none
cleanup_kills(tracked) == {}

\* the loop has ended (line 115): exit_and_cleanup (line 121) resets the
\* command, and main returns
ExitAndCleanup ==
  /\ MainRuns /\ pc = "exit_and_cleanup"
  /\ user_command' = reset_command
  /\ killed' = killed \cup cleanup_kills(Tracked)
  /\ pc' = "done"
  /\ UNCHANGED <<aux_vars, hstack, exit_program, status_vars, list_vars, foreground_only,
                 spwan_pid, cur, child, sig_vars,
                 tstp, bg_done, status_line, fg_last, notice>>

\* ------------------------------------------------------- fork_and_execute
\* fork() (line 359) succeeds: the child exists from here on
Fork ==
  /\ MainRuns /\ pc = "fork_and_execute" /\ NChildren < MaxChildren
  /\ spwan_pid' = NChildren + 1
  /\ child' = [child EXCEPT ![NChildren + 1] =
                 [st |-> "running", bg |-> user_command.background,
                  lost |-> FALSE]]
  /\ pc' = "sigaction"
  /\ UNCHANGED <<aux_vars, hstack, user_command, cur, exit_program, status_vars, list_vars,
                 foreground_only, sig_vars, hist_vars>>

\* fork() fails (lines 364-367): perror, exit(FAILURE)
ForkFails ==
  /\ MainRuns /\ pc = "fork_and_execute"
  /\ pc' = "fork_failed"
  /\ shell_stderr' = Append(shell_stderr, "fork() failed")
  /\ UNCHANGED <<study_vars, cwd, hstack, cmd_vars, exit_program, status_vars, list_vars,
                 foreground_only, child, sig_vars, hist_vars>>

\* the parent installs handle_sigchld (lines 393-396), after the fork
Sigaction ==
  /\ MainRuns /\ pc = "sigaction"
  /\ sa_sigchld' = TRUE
  /\ pc' = IF user_command.background THEN "push_head" ELSE "set_foreground"
  /\ UNCHANGED <<aux_vars, hstack, cmd_vars, exit_program, status_vars, list_vars,
                 foreground_only, child, pend_chld, pend_tstp, hist_vars>>

\* push_background_process: the new node (lines 512-514) and the empty-list
\* case (lines 517-520).  The node of pid p lives at address p.
PushHead ==
  /\ MainRuns /\ pc = "push_head"
  /\ node' = [node EXCEPT ![spwan_pid] =
                [process_id |-> spwan_pid, next |-> 0, st |-> "live"]]
  /\ background' = IF background = 0 THEN spwan_pid ELSE background
  /\ pc' = IF background = 0 THEN "print_bg" ELSE "push_cur"
  /\ UNCHANGED <<aux_vars, hstack, cmd_vars, exit_program, status_vars, foreground_only,
                 child, sig_vars, hist_vars>>

\* line 523: the head is read again
PushCur ==
  /\ MainRuns /\ pc = "push_cur"
  /\ cur' = background
  /\ pc' = "push_while"
  /\ UNCHANGED <<aux_vars, hstack, user_command, spwan_pid, exit_program, status_vars,
                 list_vars, foreground_only, child, sig_vars, hist_vars>>

\* a read of current_background_process->next is defined only for a node that
\* is still allocated
Dangling(a) == IF a = 0 THEN TRUE ELSE node[a].st # "live"

\* line 524, the loop test.  On NULL the read faults.  On a node that
\* handle_sigchld has freed meanwhile the read is undefined: the build either
\* still finds the old value there or follows what free() left and faults.
PushWhile ==
  /\ MainRuns /\ pc = "push_while"
  /\ \/ /\ Dangling(cur)
        /\ pc' = "crashed"
     \/ /\ cur # 0
        /\ pc' = IF node[cur].next # 0 THEN "push_next" ELSE "push_link"
  /\ UNCHANGED <<aux_vars, hstack, cmd_vars, exit_program, status_vars, list_vars,
                 foreground_only, child, sig_vars, hist_vars>>

\* line 525, the loop body: the field is read again
PushNext ==
  /\ MainRuns /\ pc = "push_next"
  /\ \/ /\ Dangling(cur)
        /\ pc' = "crashed"
        /\ cur' = cur
     \/ /\ cur' = node[cur].next
        /\ pc' = "push_while"
  /\ UNCHANGED <<aux_vars, hstack, user_command, spwan_pid, exit_program, status_vars,
                 list_vars, foreground_only, child, sig_vars, hist_vars>>

\* line 528: the new node is linked behind the node the walk ended on, also
\* when that node has been freed meanwhile
PushLink ==
  /\ MainRuns /\ pc = "push_link"
  /\ node' = [node EXCEPT ![cur].next = spwan_pid]
  /\ pc' = "print_bg"
  /\ UNCHANGED <<aux_vars, hstack, cmd_vars, exit_program, status_vars, background,
                 foreground_only, child, sig_vars, hist_vars>>

\* lines 403-404: "background pid is ..."; fork_and_execute returns
PrintBackground ==
  /\ MainRuns /\ pc = "print_bg"
  /\ Prompt
  /\ UNCHANGED <<aux_vars, hstack, exit_program, status_vars, list_vars, foreground_only,
                 child, sig_vars, hist_vars>>

\* line 410
SetForeground ==
  /\ MainRuns /\ pc = "set_foreground"
  /\ foreground' = spwan_pid
  /\ pc' = "fg_test"
  /\ UNCHANGED <<aux_vars, hstack, cmd_vars, exit_program, exit_status, kill_signal,
                 list_vars, foreground_only, child, sig_vars, hist_vars>>

\* line 413: the condition of while (program_status.foreground)
fg_wait(fg) == fg # 0

\* line 413: the slot is tested; on 0 fork_and_execute returns
FgTest ==
  /\ MainRuns /\ pc = "fg_test"
  /\ IF fg_wait(foreground)
     THEN pc' = "call_pause" /\ UNCHANGED cmd_vars
     ELSE Prompt
  /\ UNCHANGED <<aux_vars, hstack, exit_program, status_vars, list_vars, foreground_only,
                 child, sig_vars, hist_vars>>

\* line 414: pause() is entered; it blocks until a handler has run and
\* returned.  A handler that ran between the test and this call is not seen.
Pause ==
  /\ MainRuns /\ pc = "call_pause"
  /\ pc' = "pause"
  /\ UNCHANGED <<aux_vars, hstack, cmd_vars, exit_program, status_vars, list_vars,
                 foreground_only, child, sig_vars, hist_vars>>

\* a handler returns: the frame is popped, and a pause() that the handler
\* interrupted returns once no handler is left, to the test of line 413
Return ==
  /\ hstack' = SubSeq(hstack, 1, Len(hstack) - 1)
  /\ pc' = IF Len(hstack) = 1 /\ pc = "pause" THEN "fg_test" ELSE pc

\* ------------------------------------------------------------ the children
\* a child ends (it exits or a signal kills it).  The kernel makes SIGCHLD
\* pending for the parent; while SIGCHLD still has its default disposition
\* (before line 396 has run the first time) the signal is discarded instead.
\* How the child ended is what waitpid reports: the model draws it there.
\* lost records that the child's own SIGCHLD was discarded.
ChildEnds ==
  /\ Alive
  /\ \E p \in Pids :
       /\ child[p].st = "running"
       /\ child' = [child EXCEPT ![p].st = "zombie", ![p].lost = ~sa_sigchld]
  /\ pend_chld' = (pend_chld \/ sa_sigchld)
  /\ UNCHANGED <<aux_vars, pc, hstack, cmd_vars, exit_program, status_vars, list_vars,
                 foreground_only, sa_sigchld, pend_tstp, hist_vars>>

\* ----------------------------------------------------------- handle_sigchld
\* SIGCHLD is delivered wherever the shell is, unless handle_sigchld is
\* already running (its sa_mask blocks everything, line 394); handle_sigtstp
\* does not block it (line 108)
DeliverChld ==
  /\ Alive /\ pend_chld
  /\ \A i \in 1..Len(hstack) : hstack[i] # "sigchld"
  /\ hstack' = Append(hstack, "sigchld")
  /\ pend_chld' = FALSE
  /\ UNCHANGED <<aux_vars, pc, user_command, exit_program, status_vars, list_vars,
                 foreground_only, spwan_pid, cur, child, sa_sigchld, pend_tstp,
                 hist_vars>>

\* one turn of the loop of lines 435-478: waitpid(-1, WNOHANG) returns a
\* terminated child
ChldReap ==
  /\ InHandler("sigchld")
  /\ \E pid \in Zombies, exit_method \in ExitMethods :
       LET popped == pop_background_process(background, node, pid)
       IN /\ child' = [child EXCEPT ![pid].st = "reaped"]
          /\ fg_last' = IF child[pid].bg THEN fg_last ELSE exit_method
          /\ background' = popped.head
          /\ node' = popped.nodes
          /\ IF popped.found
             THEN \* lines 440-458
                  /\ bg_done' = [bg_done EXCEPT ![pid] = @ + 1]
                  /\ UNCHANGED status_vars
             ELSE \* lines 461-477
                  /\ exit_status' = IF WIFEXITED(exit_method)
                                    THEN WEXITSTATUS(exit_method) ELSE 0
                  /\ kill_signal' = IF WIFSIGNALED(exit_method)
                                    THEN WTERMSIG(exit_method) ELSE 0
                  /\ foreground' = 0
                  /\ UNCHANGED bg_done
  /\ UNCHANGED <<aux_vars, pc, hstack, cmd_vars, exit_program, foreground_only,
                 sig_vars, tstp, status_line, notice, killed>>

\* line 435: the loop ends when waitpid(-1, WNOHANG) returns no pid, which is
\* when no child of the shell is terminated and not reaped yet
chld_loop_ends_after_one(zombies) == TRUE
chld_loop_ends(zombies) == zombies = {}

\* waitpid finds no terminated child: the loop ends, the handler returns
ChldReturn ==
  /\ InHandler("sigchld")
  /\ chld_loop_ends(Zombies)
  /\ Return
  /\ UNCHANGED <<aux_vars, user_command, exit_program, status_vars, list_vars,
                 foreground_only, spwan_pid, cur, child, sa_sigchld, pend_chld,
                 pend_tstp, hist_vars>>

\* ----------------------------------------------------------- handle_sigtstp
\* the user sends SIGTSTP while a handler runs: both handlers block it
\* (lines 107 and 394), so it stays pending
TstpBlocked ==
  /\ Alive /\ hstack # <<>> /\ ~pend_tstp
  /\ tstp.delivered < MaxTstp
  /\ pend_tstp' = TRUE
  /\ UNCHANGED <<aux_vars, pc, hstack, cmd_vars, exit_program, status_vars, list_vars,
                 foreground_only, child, sa_sigchld, pend_chld, hist_vars>>

\* handle_sigtstp starts and toggles the mode (line 491); it is then in the
\* loop of line 494, which only reads the foreground slot
handle_sigtstp_clears ==
  /\ hstack' = <<"sigtstp">>
  /\ foreground_only' = ~foreground_only
  /\ foreground' = 0
  /\ tstp' = [tstp EXCEPT !.delivered = @ + 1]

handle_sigtstp ==
  /\ hstack' = <<"sigtstp">>
  /\ foreground_only' = ~foreground_only
  /\ foreground' = foreground
  /\ tstp' = [tstp EXCEPT !.delivered = @ + 1]

\* SIGTSTP is delivered when no handler runs: a pending one, or one the user
\* sends now
DeliverTstp ==
  /\ Alive /\ hstack = <<>>
  /\ pend_tstp \/ tstp.delivered < MaxTstp
  /\ pend_tstp' = FALSE
  /\ handle_sigtstp
  /\ UNCHANGED <<aux_vars, pc, cmd_vars, exit_program, exit_status, kill_signal,
                 list_vars, child, sa_sigchld, pend_chld,
                 bg_done, status_line, fg_last, notice, killed>>

\* lines 495-499: the text of the notice
tstp_notice(fg_only) ==
  IF fg_only THEN "Entering foreground-only mode (& is now ignored)"
  ELSE "Exiting foreground-only mode"

\* line 494, while (program_status.foreground) {}: the loop ends when the
\* slot is read as 0
spin_ends(fg) == fg = 0

\* the loop of line 494 ends, the notice is written (lines 495-499) and the
\* handler returns.  Nothing can fill the slot or toggle the mode in between:
\* the main loop is suspended and SIGTSTP is blocked.
TstpNotice ==
  /\ InHandler("sigtstp")
  /\ spin_ends(foreground)
  /\ notice' = tstp_notice(foreground_only)
  /\ tstp' = [tstp EXCEPT !.notices = @ + 1]
  /\ Return
  /\ UNCHANGED <<aux_vars, cmd_vars, exit_program, status_vars, list_vars,
                 foreground_only, child, sig_vars,
                 bg_done, status_line, fg_last, killed>>

\* line 494 in an optimised build: program_status.foreground is not volatile
\* and the loop body is empty, so the field is loaded once, before the loop;
\* when that load is not 0 the loop never ends, whatever handle_sigchld
\* writes later
TstpSpinHoisted ==
  /\ InHandler("sigtstp")
  /\ foreground # 0
  /\ hstack' = <<"sigtstp_hoisted">>
  /\ UNCHANGED <<aux_vars, pc, cmd_vars, exit_program, status_vars, list_vars,
                 foreground_only, child, sig_vars, hist_vars>>

\* ----------------------------------------------------------- specification
MainStep ==
  \/ ReportStatusTest \/ ReportStatusWrite \/ ChangeDirectory
  \/ ExitAndCleanup \/ Fork \/ Sigaction \/ PushHead \/ PushCur \/ PushWhile
  \/ PushNext \/ PushLink \/ PrintBackground \/ SetForeground \/ FgTest
  \/ Pause

HandlerStep ==
  \/ ChldReap \/ ChldReturn \/ TstpNotice

Next ==
  \/ MainLoop \/ ReportStatusTest \/ ReportStatusWrite
  \/ ChangeDirectory \/ ExitAndCleanup \/ Fork \/ ForkFails \/ Sigaction
  \/ PushHead \/ PushCur \/ PushWhile \/ PushNext \/ PushLink
  \/ PrintBackground \/ SetForeground \/ FgTest \/ Pause
  \/ ChildEnds \/ DeliverChld \/ ChldReap \/ ChldReturn
  \/ TstpBlocked \/ DeliverTstp \/ TstpNotice \/ TstpSpinHoisted

Spec == Init /\ [][Next]_vars

\* the shell keeps running while it has a step to take, a handler that has
\* started runs on, and a pending signal that is not blocked is delivered;
\* nothing makes the user type, a child end, or fork() fail
FairSpec ==
  /\ Init /\ [][Next]_vars
  /\ WF_vars(MainStep)
  /\ WF_vars(HandlerStep)
  /\ WF_vars(DeliverChld)
  /\ WF_vars(pend_tstp /\ DeliverTstp)

\* ------------------------------------------------------------- the parser
\* get_command and execute_command on their own, for every line over a small
\* alphabet, in either mode: pc = "get_command" is getline having returned
\* input_buffer (line 143)
MaxLine == 5          \* characters in a line

ParseAlphabet == {" ", "#", "&", "<", ">", "p"}
ParseLines == UNION {[1..n -> ParseAlphabet] : n \in 0..MaxLine}

ParseInit ==
  \E buffer \in ParseLines, fg_only \in BOOLEAN :
    InitWith("get_command", fg_only, reset_command, buffer, NoChild, HomeDir)

\* lines 147-187: the line is parsed into user_command; FAILURE sends the
\* main loop back to the prompt (line 116), a NULL handed to expand_variable
\* ends the shell.  The line stays in input_buffer for reference.
GetCommand ==
  /\ MainRuns /\ pc = "get_command"
  /\ \E junk \in Junk :
       LET r == get_command(input_buffer, foreground_only, junk)
       IN /\ user_command' = r.cmd
          /\ pc' = IF r.fault THEN "crashed"
                   ELSE IF r.rc = SUCCESS THEN "execute_command" ELSE "main"
  /\ UNCHANGED <<hstack, exit_program, status_vars, list_vars, foreground_only,
                 spwan_pid, cur, child, sig_vars, hist_vars, aux_vars>>

\* lines 276-292: execute_command picks the built-in or fork_and_execute
ExecuteCommand ==
  /\ MainRuns /\ pc = "execute_command"
  /\ LET to == Dispatch(user_command.arguments)
     IN /\ pc' = IF to = "exit" THEN "exit_and_cleanup" ELSE to
        /\ exit_program' = (to = "exit")
  /\ UNCHANGED <<hstack, cmd_vars, status_vars, list_vars, foreground_only,
                 child, sig_vars, hist_vars, aux_vars>>

ParseNext == GetCommand \/ ExecuteCommand

ParseSpec == ParseInit /\ [][ParseNext]_vars

\* ------------------------------------------------------ variable expansion
\* get_command on lines whose first token is a word over "a" and "$", alone
\* or followed by a second token
MaxWord == 4          \* characters in a word that mixes "a" and "$"
MaxRun == 24          \* characters in a word made of "a" only

ExpandWords ==
  UNION {[1..n -> {"a", "$"}] : n \in 1..MaxWord}
    \cup {[i \in 1..n |-> "a"] : n \in 1..MaxRun}
ExpandLines == ExpandWords \cup {w \o <<" ", "a">> : w \in ExpandWords}

ExpandInit ==
  \E buffer \in ExpandLines, fg_only \in BOOLEAN :
    InitWith("get_command", fg_only, reset_command, buffer, NoChild, HomeDir)

ExpandSpec == ExpandInit /\ [][ParseNext]_vars

\* ------------------------------------------------------------ one command
\* one line from getline to the next prompt: get_command, execute_command,
\* the built-in or fork_and_execute with its child, started in StartDir.  The
\* first token is a built-in's name, a name that starts or ends like one, or
\* a program; a directory, a name that is no directory, or "&" may follow.
CommandWords ==
  { T_status, T_cd, T_exit, T_prog,
    T_cd \o T_prog, T_cd \o T_dir, <<"c">>, T_status \o T_prog,
    T_exit \o T_prog, <<"e", "x", "i">> }
CommandTails == {<<>>, <<" ">> \o T_dir, <<" ">> \o T_file, <<" ">> \o T_amp}
CommandLines == {w \o t : w \in CommandWords, t \in CommandTails}

CommandInit ==
  \E buffer \in CommandLines, fg_only \in BOOLEAN :
    InitWith("get_command", fg_only, reset_command, buffer, NoChild, StartDir)

CommandNext ==
  \/ GetCommand \/ ExecuteCommand \/ ReportStatusTest \/ ReportStatusWrite
  \/ ChangeDirectory \/ ExitAndCleanup \/ Fork \/ ForkFails \/ Sigaction
  \/ PushHead \/ PrintBackground \/ SetForeground \/ FgTest \/ Pause
  \/ ChildEnds \/ DeliverChld \/ ChldReap \/ ChldReturn

CommandSpec == CommandInit /\ [][CommandNext]_vars

\* ------------------------------------------------------- the child process
\* fork() has returned 0 (line 370): this process is the child, a copy of the
\* shell as it was at the fork, with the shell's signal dispositions.  cproc
\* is what the process host knows of it; pc = "child" throughout.
MaxChildSignals == 2  \* SIGINT, and SIGTSTP, sent to the child in a run

INPUT == 0
OUTPUT == 1
SIGINT == 2

DevNull == <<"/dev/null">>
Inherited == [path |-> <<>>, flags |-> ""]

ChildCommands ==
  [arguments : {<<T_prog>>}, input_file : {<<>>, T_file},
   output_file : {<<>>, T_file}, background : BOOLEAN]

ForkedChild ==
  [pc |-> "sigint", sigint |-> "SIG_IGN", sigtstp |-> "handle_sigtstp",
   fd |-> [mode \in {INPUT, OUTPUT} |-> Inherited],
   reported |-> <<>>, failed |-> FALSE, ran |-> FALSE,
   ended |-> "no", code |-> 0, stopped |-> FALSE,
   ints |-> 0, int_ignored |-> 0, tstps |-> 0, notices |-> 0]

ChildInit ==
  \E cmd \in ChildCommands, fg_only \in BOOLEAN :
    InitWith("child", fg_only, cmd, <<>>, ForkedChild, HomeDir)

\* what the child's copy of the shell's state stays as
child_frame == <<pc, hstack, user_command, exit_program, status_vars, list_vars,
                 spwan_pid, cur, child, sig_vars, hist_vars, input_buffer,
                 cwd, shell_stderr>>

ChildRuns == pc = "child" /\ cproc.ended = "no" /\ ~cproc.stopped

\* lines 373-376: a foreground child takes the default action for SIGINT
ChildSigint ==
  /\ ChildRuns /\ cproc.pc = "sigint"
  /\ cproc' = [cproc EXCEPT
                 !.sigint = IF ~user_command.background THEN "SIG_DFL" ELSE @,
                 !.pc = "sigtstp"]
  /\ UNCHANGED <<child_frame, foreground_only>>

\* lines 379-380: every child ignores SIGTSTP
ChildSigtstp ==
  /\ ChildRuns /\ cproc.pc = "sigtstp"
  /\ cproc' = [cproc EXCEPT !.sigtstp = "SIG_IGN", !.pc = "redirect_input"]
  /\ UNCHANGED <<child_frame, foreground_only>>

\* lines 625-630: the file to open when the command names none; <<>> is
\* "return true", the stream is left as it is
missing_file_none(is_background) == <<>>
missing_file(is_background) == IF is_background THEN DevNull ELSE <<>>

\* redirect (lines 614-658) for one mode, open and dup2 ending as outcome
redirect(cmd, mode, outcome) ==
  LET given == IF mode = INPUT THEN cmd.input_file ELSE cmd.output_file
      filename == IF given = <<>> THEN missing_file(cmd.background) ELSE given
      mode_string == IF mode = INPUT THEN "input" ELSE "output"
  IN IF filename = <<>>
     THEN [ok |-> TRUE, stream |-> Inherited, msg |-> <<>>]
     ELSE IF outcome = "open_fails"
     THEN [ok |-> FALSE, stream |-> Inherited,
           msg |-> <<[text |-> "cannot open", filename |-> filename,
                      mode_string |-> mode_string]>>]
     ELSE IF outcome = "dup2_fails"
     THEN [ok |-> FALSE, stream |-> Inherited,
           msg |-> <<[text |-> "redirection failed", filename |-> filename,
                      mode_string |-> mode_string]>>]
     ELSE [ok |-> TRUE,
           stream |-> [path |-> filename,
                       flags |-> IF mode = INPUT THEN "O_RDONLY"
                                 ELSE "O_WRONLY|O_CREAT|O_TRUNC"],
           msg |-> <<>>]

\* lines 382-383: where the child goes after redirect for one mode
after_redirect_goes_on(ok, mode) ==
  IF mode = INPUT THEN "redirect_output" ELSE "execvp"
after_redirect(ok, mode) ==
  IF ~ok THEN "ended"
  ELSE IF mode = INPUT THEN "redirect_output" ELSE "execvp"

\* line 382: redirect for the input, then, when that went well, for the
\* output; line 383: exit(FAILURE) when either failed
ChildRedirect ==
  /\ ChildRuns /\ cproc.pc \in {"redirect_input", "redirect_output"}
  /\ \E outcome \in {"ok", "open_fails", "dup2_fails"} :
       LET mode == IF cproc.pc = "redirect_input" THEN INPUT ELSE OUTPUT
           r == redirect(user_command, mode, outcome)
           to == after_redirect(r.ok, mode)
       IN cproc' = [cproc EXCEPT
                      !.fd[mode] = r.stream,
                      !.reported = @ \o r.msg,
                      !.failed = @ \/ (r.msg # <<>> /\ outcome = "open_fails"),
                      !.pc = to,
                      !.ended = IF to = "ended" THEN "exited" ELSE @,
                      !.code = IF to = "ended" THEN FAILURE ELSE @]
  /\ UNCHANGED <<child_frame, foreground_only>>

\* lines 385-387: where the child is after execvp: in the program, or, when
\* execvp has returned, at its end through exit(FAILURE); "returned" would be
\* the child going on into the code after the switch, back to the main loop
after_execvp_returns(outcome) ==
  IF outcome = "fails" THEN "returned" ELSE "program"
after_execvp(outcome) ==
  IF outcome = "fails" THEN "ended" ELSE "program"

\* line 385: execvp starts the program, which keeps the ignored signals
\* ignored and has the default action for the handled ones; or it fails
\* (lines 386-387): perror, exit(FAILURE)
ChildExec ==
  /\ ChildRuns /\ cproc.pc = "execvp"
  /\ \E outcome \in {"starts", "fails"} :
       LET to == after_execvp(outcome)
       IN cproc' =
            IF outcome = "starts"
            THEN [cproc EXCEPT
                    !.ran = TRUE, !.pc = to,
                    !.sigtstp = IF @ = "handle_sigtstp" THEN "SIG_DFL" ELSE @]
            ELSE [cproc EXCEPT
                    !.reported = Append(@, [text |-> "perror",
                                            filename |-> user_command.arguments[1],
                                            mode_string |-> ""]),
                    !.pc = to,
                    !.ended = IF to = "ended" THEN "exited" ELSE @,
                    !.code = IF to = "ended" THEN FAILURE ELSE @]
  /\ UNCHANGED <<child_frame, foreground_only>>

\* the program ends by itself
ChildProgramEnds ==
  /\ ChildRuns /\ cproc.pc = "program"
  /\ cproc' = [cproc EXCEPT !.pc = "ended", !.ended = "exited", !.code = SUCCESS]
  /\ UNCHANGED <<child_frame, foreground_only>>

\* SIGINT reaches the child: the default action terminates it, SIG_IGN drops
\* the signal
ChildGetsSigint ==
  /\ ChildRuns /\ cproc.ints < MaxChildSignals
  /\ cproc' = IF cproc.sigint = "SIG_DFL"
              THEN [cproc EXCEPT !.ints = @ + 1, !.pc = "ended",
                                 !.ended = "signaled", !.code = SIGINT]
              ELSE [cproc EXCEPT !.ints = @ + 1, !.int_ignored = @ + 1]
  /\ UNCHANGED <<child_frame, foreground_only>>

\* SIGTSTP reaches the child.  While the disposition is the one inherited
\* from the shell, handle_sigtstp (lines 488-500) runs in the child: it
\* toggles the child's copy of the mode and, the copy of the foreground slot
\* being 0, writes the notice.  SIG_IGN drops the signal, the default action
\* stops the process.
ChildGetsSigtstp ==
  /\ ChildRuns /\ cproc.tstps < MaxChildSignals
  /\ IF cproc.sigtstp = "handle_sigtstp"
     THEN /\ foreground = 0
          /\ foreground_only' = ~foreground_only
          /\ cproc' = [cproc EXCEPT !.tstps = @ + 1, !.notices = @ + 1]
     ELSE /\ foreground_only' = foreground_only
          /\ cproc' = [cproc EXCEPT !.tstps = @ + 1,
                                    !.stopped = (cproc.sigtstp = "SIG_DFL")]
  /\ UNCHANGED child_frame

ChildNext ==
  \/ ChildSigint \/ ChildSigtstp \/ ChildRedirect \/ ChildExec
  \/ ChildProgramEnds \/ ChildGetsSigint \/ ChildGetsSigtstp

ChildSpec == ChildInit /\ [][ChildNext]_vars

\* ------------------------------------------------------------------ claims
\* the foreground child of the command fork_and_execute is running for
FgSpawned ==
  /\ pc \in {"sigaction", "set_foreground", "fg_test", "call_pause", "pause"}
  /\ ~user_command.background

\* no SIGTSTP has been delivered and none is pending
NoTstp == tstp.delivered = 0 /\ ~pend_tstp

\* C1: once the foreground child that fork_and_execute has spawned is
\* terminated, the foreground wait ends and the main loop reads the next
\* line, as long as no SIGTSTP comes in.
C1_FgWaitEnds ==
  (FgSpawned /\ child[spwan_pid].st # "running" /\ NoTstp)
    ~> (pc = "main" \/ ~NoTstp)

\* every child forked so far has terminated, the shell is back at the prompt
\* and no SIGCHLD is left to handle
AllOver ==
  /\ pc = "main" /\ hstack = <<>> /\ ~pend_chld
  /\ \A p \in Pids : child[p].st # "running"

\* C2: when all the children spawned in the background have terminated,
\* "background pid P is done" has been written exactly once for each of them
\* and the background list is empty.
C2_AllBackgroundNotified ==
  AllOver =>
    /\ \A p \in Pids : (child[p].st # "none" /\ child[p].bg) => bg_done[p] = 1
    /\ \A p \in Pids : ~(child[p].st # "none" /\ child[p].bg) => bg_done[p] = 0
    /\ background = 0

\* the line `status` is to write for a foreground child that ended as m
status_of(m) ==
  IF m.kind = "signaled" THEN <<"terminated by signal ", write_integer(m.val)>>
  ELSE <<"exit value ", write_integer(m.val)>>

\* C3: what the `status` built-in writes is the outcome of the last
\* foreground command that completed, "exit value 0" before any has,
\* whatever background children were spawned or terminated.
C3_StatusReportsLastForeground ==
  [][(pc \in {"status_signal", "status_exit"} /\ pc' = "main")
       => status_line' = status_of(fg_last)]_vars

\* C4: a step of handle_sigchld that reaps a child spawned in the background
\* leaves exit_status, kill_signal and the foreground slot as they are.
C4_BackgroundReapKeepsStatus ==
  [][\A p \in Pids :
       (child[p].bg /\ child[p].st = "zombie" /\ child'[p].st = "reaped")
         => UNCHANGED <<exit_status, kill_signal, foreground>>]_vars

\* C5: a foreground child that is running is the one the main loop is
\* waiting for inside fork_and_execute, so there is at most one and no command
\* is read or dispatched meanwhile; and the foreground slot is occupied only
\* inside that wait.
C5_OneForegroundInFlight ==
  /\ \A p \in Pids :
       (~child[p].bg /\ child[p].st = "running")
         => (FgSpawned /\ spwan_pid = p)
  /\ foreground # 0 =>
       (pc \in {"fg_test", "call_pause", "pause"} /\ foreground = spwan_pid)

\* C6: when the shell has ended through `exit`, every child it still tracked
\* has been sent a termination signal.
C6_ExitKillsTracked ==
  pc = "done" => Tracked \subseteq killed

\* C7: no step taken in signal-handler context releases heap memory.
C7_NoFreeInHandler ==
  [][\A a \in Pids :
       (node[a].st = "live" /\ node'[a].st = "freed") => hstack = <<>>]_vars

\* C8: exit_status and kill_signal change, and the foreground slot is
\* cleared, only in steps of handle_sigchld.
C8_OnlySigchldRecords ==
  [][(\/ exit_status' # exit_status
      \/ kill_signal' # kill_signal
      \/ (foreground # 0 /\ foreground' = 0))
       => InHandler("sigchld")]_vars

\* C8, witness: handle_sigchld has recorded a foreground child killed by a
\* signal and cleared the slot
C8_Witness ==
  /\ kill_signal = 9 /\ exit_status = 0 /\ foreground = 0
  /\ \E p \in Pids : ~child[p].bg /\ child[p].st = "reaped"

\* a handle_sigtstp that has not written its notice yet
TstpActive == hstack # <<>> /\ hstack[1] \in {"sigtstp", "sigtstp_hoisted"}

C10_TstpWaitEnds ==
  (/\ TstpActive /\ foreground # 0
   /\ child[foreground].st = "zombie" /\ pend_chld)
    ~> (hstack = <<>> /\ pc = "main")

\* the tokens of the line under parse, and the parse being over
InputTokens == strtok_r(input_buffer, 1)
Parsed == pc # "get_command"

\* the last token of the line is "&"
EndsInAmp ==
  InputTokens # <<>> /\ InputTokens[Len(InputTokens)] = T_amp

\* C11: in foreground-only mode a line that ends in "&" is parsed to the
\* command the line without the "&" is parsed to, with background false.
C11_AmpDroppedInForegroundOnly ==
  (pc = "execute_command" /\ foreground_only /\ EndsInAmp) =>
    LET without == parse_tokens(SubSeq(InputTokens, 1, Len(InputTokens) - 1),
                                1, reset_command, TRUE, <<>>)
    IN (~without.fault /\ without.cmd.arguments # <<>>) =>
         /\ ~user_command.background
         /\ user_command.arguments = without.cmd.arguments
         /\ user_command.input_file = without.cmd.input_file
         /\ user_command.output_file = without.cmd.output_file

\* C11, witness: "p &" parsed in foreground-only mode
C11_Witness ==
  /\ pc = "execute_command" /\ foreground_only
  /\ input_buffer = <<"p", " ", "&">>
  /\ user_command.arguments = <<T_prog>> /\ ~user_command.background

\* C12: no child is forked in the background role while foreground-only
\* mode is on.
C12_NoBackgroundSpawnInForegroundOnly ==
  [][\A p \in Pids :
       (child[p].st = "none" /\ child'[p].st = "running" /\ child'[p].bg)
         => ~foreground_only]_vars

\* C13: a parsed command is marked background only when "&" is the last
\* token of its line.
C13_AmpOnlyAsLastToken ==
  (pc = "execute_command" /\ user_command.background) => EndsInAmp

\* C14: a line with no token, or whose first token starts with "#", is
\* skipped: get_command returns FAILURE and the main loop is back at the
\* prompt with nothing dispatched, in either mode.
C14_BlankOrCommentSkipped ==
  (Parsed /\ (InputTokens = <<>> \/ InputTokens[1][1] = "#")) => pc = "main"

\* C15: a command get_command returns SUCCESS for has an argument 0.
C15_ValidHasArgument ==
  pc = "execute_command" => user_command.arguments # <<>>

\* the token loop, from token i on, meets a "<" or ">" with no token after it
RECURSIVE Dangling_redirect(_, _)
Dangling_redirect(toks, i) ==
  IF i > Len(toks) THEN FALSE
  ELSE IF toks[i] \in {T_lt, T_gt}
       THEN i = Len(toks) \/ Dangling_redirect(toks, i + 2)
  ELSE Dangling_redirect(toks, i + 1)

\* C16: a line with a dangling "<" or ">" is discarded: the shell does not
\* crash and is back at the prompt with nothing dispatched.
C16_DanglingRedirectDiscarded ==
  (Parsed /\ Dangling_redirect(InputTokens, 1)) => pc = "main"

\* every "$$" of the token, met left to right in one pass, replaced by the
\* decimal digits of the pid
RECURSIVE Replaced(_)
Replaced(t) ==
  IF Len(t) < 2 THEN t
  ELSE IF t[1] = "$" /\ t[2] = "$"
       THEN write_integer(ShellPid) \o Replaced(SubSeq(t, 3, Len(t)))
       ELSE <<t[1]>> \o Replaced(SubSeq(t, 2, Len(t)))

\* C17: the argument get_command stores for a token is the token with every
\* "$$" replaced by the pid, left to right in one pass; a token without "$$"
\* is stored unchanged.
C17_ExpandIsReplaceAll ==
  pc = "execute_command" =>
    user_command.arguments[1] = Replaced(InputTokens[1])

\* the stream a child is to run its program with, for one mode
Stream_for(cmd, mode) ==
  LET given == IF mode = INPUT THEN cmd.input_file ELSE cmd.output_file
      flags == IF mode = INPUT THEN "O_RDONLY" ELSE "O_WRONLY|O_CREAT|O_TRUNC"
  IN IF given # <<>> THEN [path |-> given, flags |-> flags]
     ELSE IF cmd.background THEN [path |-> DevNull, flags |-> flags]
     ELSE Inherited

\* C18: when the child calls execvp, and while its program runs, a stream
\* the command names a file for is bound to that file (input read-only,
\* output create-or-truncate), a stream it names none for is bound to the
\* null device in a background child and left untouched in a foreground
\* child.
C18_RedirectionByRole ==
  (cproc.pc = "execvp" \/ cproc.ran) =>
    \A mode \in {INPUT, OUTPUT} : cproc.fd[mode] = Stream_for(user_command, mode)

\* C18, witness: a background child with no input file runs its program on
\* the null device
C18_Witness ==
  /\ cproc.ran /\ user_command.background /\ user_command.input_file = <<>>
  /\ cproc.fd[INPUT] = [path |-> DevNull, flags |-> "O_RDONLY"]

\* C19: a child that failed to open a redirection file has reported it and
\* has exited with a status other than 0 without running its program; the
\* process it happened in is the child.
C19_OpenFailureEndsChild ==
  cproc.failed =>
    /\ cproc.ended = "exited" /\ cproc.code # 0
    /\ ~cproc.ran
    /\ cproc.reported # <<>>
    /\ pc = "child"

\* C19, witness: the output file of a foreground child could not be opened
C19_Witness ==
  /\ cproc.failed /\ cproc.ended = "exited" /\ cproc.code = FAILURE
  /\ ~user_command.background /\ user_command.output_file = T_file
  /\ cproc.fd[OUTPUT] = Inherited

\* C20: a child never acts on SIGTSTP and is never stopped by it; SIGINT is
\* never lost on a foreground child and terminates no background child; the
\* program runs with SIGINT at its default in a foreground child, ignored in
\* a background child, and SIGTSTP ignored.
C20_DispositionsByRole ==
  /\ cproc.notices = 0 /\ ~cproc.stopped
  /\ cproc.ended = "signaled" => ~user_command.background
  /\ ~user_command.background => cproc.int_ignored = 0
  /\ cproc.ran =>
       /\ cproc.sigtstp = "SIG_IGN"
       /\ cproc.sigint = IF user_command.background THEN "SIG_IGN" ELSE "SIG_DFL"

\* the command of the line has been handed on by execute_command
Dispatched == pc \notin {"get_command", "execute_command"}

\* C21: a command whose argument 0 is exactly status, cd or exit runs in the
\* shell itself and no child is forked; a command with any other argument 0
\* goes to fork_and_execute, which forks exactly one child.
C21_BuiltinDispatch ==
  (Dispatched /\ InputTokens # <<>>) =>
    IF InputTokens[1] \in {T_status, T_cd, T_exit}
    THEN /\ NChildren = 0
         /\ pc \in {"report_status", "status_signal", "status_exit",
                    "change_directory", "exit_and_cleanup", "done", "main"}
    ELSE /\ pc \notin {"report_status", "status_signal", "status_exit",
                       "change_directory", "exit_and_cleanup", "done"}
         /\ pc \notin {"fork_and_execute", "fork_failed"} => NChildren = 1

\* the `cd` of the line is over
CdDone ==
  /\ InputTokens # <<>> /\ InputTokens[1] = T_cd
  /\ pc \notin {"get_command", "execute_command", "change_directory"}

\* the words of the line: its tokens but the "&"
IsWord(t) == t # T_amp
CdWords == SelectSeq(InputTokens, IsWord)

\* C22: after `cd` alone the working directory is the home directory; after
\* `cd path` it is path when path is a directory, and when it is none the
\* failure has been written out and the working directory is the one before;
\* either way the shell is back at the prompt.
C22_ChangeDirectory ==
  CdDone =>
    /\ pc = "main"
    /\ IF Len(CdWords) = 1 THEN cwd = HomeDir
       ELSE IF CdWords[2] \in Dirs THEN cwd = CdWords[2]
       ELSE cwd = StartDir /\ shell_stderr # <<>>

\* execvp has failed in the child: perror has written its line
ExecFailed ==
  \E i \in 1..Len(cproc.reported) : cproc.reported[i].text = "perror"

\* C23: a child whose execvp failed has reported it and has exited with a
\* status other than 0, its program never run; and no child is ever back in
\* the code of the main loop: the process that reads lines is the shell.
C23_ExecFailureEndsChild ==
  /\ ExecFailed =>
       /\ cproc.pc = "ended" /\ cproc.ended = "exited" /\ cproc.code # 0
       /\ ~cproc.ran
  /\ cproc.pc \in {"sigint", "sigtstp", "redirect_input", "redirect_output",
                   "execvp", "program", "ended"}
  /\ pc = "child"

\* C23, witness: the output was redirected to the file, then execvp failed
C23_Witness ==
  /\ ExecFailed /\ cproc.ended = "exited" /\ cproc.code = FAILURE
  /\ cproc.fd[OUTPUT].path = T_file /\ Len(cproc.reported) = 1

\* C24: exit_status and kill_signal are never both other than 0, and the
\* line the `status` built-in writes is the one of the outcome recorded as it
\* writes: "terminated by signal S" when kill_signal is S, not 0, else
\* "exit value N" for exit_status N.
C24_StatusExclusive ==
  /\ [](exit_status = 0 \/ kill_signal = 0)
  /\ [][(pc \in {"status_signal", "status_exit"} /\ pc' = "main") =>
          status_line' = IF kill_signal # 0 THEN report_signal(kill_signal)
                         ELSE report_exit(exit_status)]_vars

\* the children handle_sigchld has reaped
Reaped == {p \in Pids : child[p].st = "reaped"}

\* C25: when handle_sigchld returns, no child that has terminated is left
\* un-reaped, also not one that terminated before the handler was installed;
\* the handler reaps only children that have terminated, each of them once.
C25_HandlerReapsAll ==
  /\ [][(InHandler("sigchld") /\ hstack' # hstack) => Zombies = {}]_vars
  /\ [][\A p \in Pids :
          /\ p \in Reaped => p \in Reaped'
          /\ (p \notin Reaped /\ p \in Reaped') =>
               (InHandler("sigchld") /\ child[p].st = "zombie")]_vars
  /\ [](\A p \in Pids : bg_done[p] <= 1)

\* C25, witness: the first child terminated before the handler was installed
\* and its SIGCHLD was discarded; the handler, run for the second child, has
\* reaped both
C25_Witness ==
  /\ InHandler("sigchld") /\ Zombies = {} /\ Reaped = {1, 2}
  /\ child[1].lost /\ bg_done[1] = 1 /\ bg_done[2] = 1

\* push_background_process is between its read of the head (line 523) and
\* its return
InPush == pc \in {"push_cur", "push_while", "push_next", "push_link"}

\* the pids push_background_process has been called for and has returned for
PushedPids == {p \in Pids : node[p].st # "none" /\ ~(InPush /\ p = spwan_pid)}

\* C26: with handle_sigchld free to run between any two steps of
\* push_background_process, the pid just pushed is in the list unless it has
\* been reaped; every pid pushed and not reaped is in the list and the list
\* holds pushed pids only; and the walk of push holds no pointer that is NULL
\* or that points to a node handle_sigchld has freed.
C26_ListConsistentUnderPreemption ==
  /\ pc = "print_bg" =>
       (spwan_pid \in BackgroundPids \/ child[spwan_pid].st = "reaped")
  /\ \A p \in PushedPids : child[p].st # "reaped" => p \in BackgroundPids
  /\ BackgroundPids \subseteq PushedPids
  /\ pc \in {"push_while", "push_next", "push_link"} =>
       (cur # 0 /\ node[cur].st = "live")
====
